---- MODULE Spec2Model ----
(***************************************************************************)
(* A model of DFConfiguration (src/core/settings.py): the settings         *)
(* registry, its version gate, and the text codec that reads and rewrites  *)
(* [FIELD:VALUE] tokens and [FIELD] / !FIELD! toggles in configuration     *)
(* files.  Texts, names and values are strings; a file on disk is the      *)
(* string of its bytes (every character of the model is ASCII, on which    *)
(* the cp437 codec is the identity), read and written through Python's     *)
(* text layer with universal newlines.                                     *)
(***************************************************************************)
EXTENDS Integers, Sequences, FiniteSets, TLC

VARIABLES
    settings,             \* self.settings: name -> current value
    options,              \* self.options: name -> value policy
    field_names,          \* self.field_names: name -> on-disk field name
    inverse_field_names,  \* self.inverse_field_names: field name -> name
    files,                \* self.files: name -> tuple of file names
    in_files,             \* self.in_files: file tuple -> list of names (insertion order)
    df_info,              \* self.df_info: [version, variations]
    linesep,              \* os.linesep of the platform the program runs on
    disk,                 \* file name -> bytes of the file, or NoFile
    err,                  \* the exception the last call raised, "none" if it returned
    last,                 \* the last call and its arguments
    trip,                 \* progress of a set_value / write_file / read_file sequence
    ret,                  \* what the last call returned, when it returns a value
    steps,                \* number of calls made so far
    limit                 \* number of calls a run makes

vars == <<settings, options, field_names, inverse_field_names, files, in_files,
          df_info, linesep, disk, err, last, trip, ret, steps, limit>>

-----------------------------------------------------------------------------
(* Python primitives *)

Char(s, i) == SubSeq(s, i, i)

Put(f, k, v) == (k :> v) @@ f

\* str.find, 1-based: the first index >= i at which sub occurs in text, 0 if none
RECURSIVE str_find(_, _, _)
str_find(text, sub, i) ==
    IF i + Len(sub) - 1 > Len(text) THEN 0
    ELSE IF SubSeq(text, i, i + Len(sub) - 1) = sub THEN i
    ELSE str_find(text, sub, i + 1)

\* str.replace(old, new): every non-overlapping occurrence, left to right
RECURSIVE str_replace(_, _, _)
str_replace(text, old, new) ==
    LET p == str_find(text, old, 1) IN
    IF p = 0 THEN text
    ELSE SubSeq(text, 1, p - 1) \o new
         \o str_replace(SubSeq(text, p + Len(old), Len(text)), old, new)

\* str.count(sub), from index i: the number of non-overlapping occurrences
RECURSIVE str_count(_, _, _)
str_count(text, sub, i) ==
    LET p == str_find(text, sub, i) IN
    IF p = 0 THEN 0 ELSE 1 + str_count(text, sub, p + Len(sub))

\* open(filename, 'r').read(): universal newlines turn "\r\n" and "\r" into "\n"
RECURSIVE io_read(_)
io_read(bytes) ==
    IF bytes = "" THEN ""
    ELSE IF Head(bytes) = "\r"
         THEN "\n" \o io_read(IF Len(bytes) >= 2 /\ Char(bytes, 2) = "\n"
                              THEN SubSeq(bytes, 3, Len(bytes))
                              ELSE Tail(bytes))
         ELSE Head(bytes) \o io_read(Tail(bytes))

\* open(filename, 'w').write(text): every "\n" is written as os.linesep
io_write(text, sep) == str_replace(text, "\n", sep)

\* the end of a non-greedy group closed by "]": the index of the first "]" at or
\* after k with no newline before it, 0 if there is none
RECURSIVE value_end(_, _)
value_end(text, k) ==
    IF k > Len(text) \/ Char(text, k) = "\n" THEN 0
    ELSE IF Char(text, k) = "]" THEN k
    ELSE value_end(text, k + 1)

\* (.+?)\] with the group starting at i: one character that is not a newline
\* (it may be "]"), then as few as possible up to a "]"
group_end(text, i) ==
    IF i > Len(text) \/ Char(text, i) = "\n" THEN 0 ELSE value_end(text, i + 1)

NoMatch == [start |-> 0, stop |-> 0, group |-> ""]

\* re.search(r'\[FIELD:(.+?)\]', text), for a field name without regex
\* metacharacters: the leftmost match at or after i
RECURSIVE re_search(_, _, _)
re_search(field, text, i) ==
    LET pre == "[" \o field \o ":"
        p == str_find(text, pre, i)
        e == group_end(text, p + Len(pre))
    IN  IF p = 0 THEN NoMatch
        ELSE IF e = 0 THEN re_search(field, text, p + 1)
        ELSE [start |-> p, stop |-> e, group |-> SubSeq(text, p + Len(pre), e - 1)]

Digits == {"0", "1", "2", "3", "4", "5", "6", "7", "8", "9"}
UpperCase == {"A", "B", "C", "D", "E", "F", "G", "H", "I", "J", "K", "L", "M",
              "N", "O", "P", "Q", "R", "S", "T", "U", "V", "W", "X", "Y", "Z"}
LowerCase == {"a", "b", "c", "d", "e", "f", "g", "h", "i", "j", "k", "l", "m",
              "n", "o", "p", "q", "r", "s", "t", "u", "v", "w", "x", "y", "z"}

\* whether re accepts repl as a replacement template: a backslash before a letter
\* or digit must start a known escape (here \1, \n, \r, \t; \1 not before a digit)
RECURSIVE template_ok(_)
template_ok(repl) ==
    IF repl = "" THEN TRUE
    ELSE IF Head(repl) # "\\" THEN template_ok(Tail(repl))
    ELSE IF Len(repl) = 1 THEN FALSE
    ELSE LET c == Char(repl, 2) IN
         /\ c \in (Digits \cup UpperCase \cup LowerCase)
                => \/ c \in {"n", "r", "t"}
                   \/ c = "1" /\ ~(Len(repl) >= 3 /\ Char(repl, 3) \in Digits)
         /\ template_ok(SubSeq(repl, 3, Len(repl)))

\* the replacement template expanded for one match: \1 is the match's group,
\* \\ a backslash, \n a newline; a backslash before any other character stays
RECURSIVE expand_template(_, _)
expand_template(repl, g) ==
    IF repl = "" THEN ""
    ELSE IF Head(repl) # "\\" \/ Len(repl) = 1
         THEN Head(repl) \o expand_template(Tail(repl), g)
    ELSE LET c == Char(repl, 2)
             rest == SubSeq(repl, 3, Len(repl))
         IN  IF c = "1" THEN g \o expand_template(rest, g)
             ELSE IF c = "\\" THEN "\\" \o expand_template(rest, g)
             ELSE IF c = "n" THEN "\n" \o expand_template(rest, g)
             ELSE IF c = "r" THEN "\r" \o expand_template(rest, g)
             ELSE IF c = "t" THEN "\t" \o expand_template(rest, g)
             ELSE "\\" \o c \o expand_template(rest, g)

\* a variant of re_sub that replaces the leftmost match only (count=1)
re_sub_first(field, repl, text) ==
    LET m == re_search(field, text, 1) IN
    IF m.start = 0 THEN text
    ELSE SubSeq(text, 1, m.start - 1) \o expand_template(repl, m.group)
         \o SubSeq(text, m.stop + 1, Len(text))

\* re.sub(r'\[FIELD:(.+?)\]', repl, text): count is not given, so every
\* non-overlapping match is replaced
RECURSIVE re_sub(_, _, _)
re_sub(field, repl, text) ==
    LET m == re_search(field, text, 1) IN
    IF m.start = 0 THEN text
    ELSE SubSeq(text, 1, m.start - 1) \o expand_template(repl, m.group)
         \o re_sub(field, repl, SubSeq(text, m.stop + 1, Len(text)))

\* the first ":" at or after k with no newline before it, 0 if there is none
RECURSIVE colon_at(_, _)
colon_at(text, k) ==
    IF k > Len(text) \/ Char(text, k) = "\n" THEN 0
    ELSE IF Char(text, k) = ":" THEN k
    ELSE colon_at(text, k + 1)

\* re.findall(r'\[(.+?):(.+?)\]', text) from index i: the pairs <<token, value>>
\* of the non-overlapping matches, left to right
RECURSIVE re_findall(_, _)
re_findall(text, i) ==
    LET p == str_find(text, "[", i)
        c == IF p + 1 > Len(text) \/ Char(text, p + 1) = "\n" THEN 0
             ELSE colon_at(text, p + 2)
        e == IF c = 0 THEN 0 ELSE group_end(text, c + 1)
    IN  IF p = 0 THEN <<>>
        ELSE IF e = 0 THEN re_findall(text, p + 1)
        ELSE << <<SubSeq(text, p + 1, c - 1), SubSeq(text, c + 1, e - 1)>> >>
             \o re_findall(text, e + 1)

-----------------------------------------------------------------------------
(* Value policies: the `values` argument of create_option *)

None == [kind |-> "None", values |-> <<>>]
_disabled == [kind |-> "disabled", values |-> <<>>]
_force_bool == [kind |-> "force_bool", values |-> <<>>]
_negated_bool == [kind |-> "negated_bool", values |-> <<>>]
Enumerated(vs) == [kind |-> "values", values |-> vs]
boolvals == Enumerated(<<"YES", "NO">>)

NoFile == "<no file>"

\* the world an operation acts on: the registry, the platform and the disk
World == [settings |-> settings, options |-> options, field_names |-> field_names,
          inverse_field_names |-> inverse_field_names, files |-> files,
          in_files |-> in_files, df_info |-> df_info, linesep |-> linesep,
          disk |-> disk, err |-> "none"]

Raise(w, e) == [w EXCEPT !.err = e]

-----------------------------------------------------------------------------
(* Version Compatibility Table *)

\* The order of the version descriptor df_info.version: the release order of
\* the versions the model uses.
version_rank ==
    ("0.21.93.19a" :> 1) @@ ("0.21.100.19a" :> 2) @@ ("0.21.104.19d" :> 3) @@
    ("0.27.169.32a" :> 4) @@ ("0.28.181.39d" :> 5) @@ ("0.28.181.40d" :> 6) @@
    ("0.31" :> 7) @@ ("0.31.01" :> 8) @@ ("0.31.03" :> 9) @@ ("0.31.04" :> 10) @@
    ("0.31.12" :> 11) @@ ("0.31.13" :> 12) @@ ("0.34.06" :> 13) @@
    ("0.34.11" :> 14) @@ ("0.40.05" :> 15)

version_le(a, b) == version_rank[a] <= version_rank[b]
version_lt(a, b) == version_rank[a] < version_rank[b]

\* the entries of the table `data` that the model uses
data ==
    ("EXTENDED_ASCII" :> <<"0.21.93.19a", "0.21.104.19d">>) @@
    ("BLACK_B" :> <<"0.21.93.19a", "0.31.04">>) @@
    ("SOUND" :> <<"0.21.100.19a">>) @@
    ("AQUIFER" :> <<"0.27.169.32a">>) @@
    ("AUTOSAVE" :> <<"0.27.169.32a">>) @@
    ("COFFIN_NO_PETS_DEFAULT" :> <<"0.27.169.32a">>) @@
    ("VOLUME" :> <<"0.27.169.32a">>) @@
    ("MACRO_MS" :> <<"0.31.13">>) @@
    ("TRUETYPE" :> <<"0.31.13">>) @@
    ("STRICT_POPULATION_CAP" :> <<"0.40.05">>)

\* a variant of version_has_option whose bounded entries include the version
\* that removed the field
version_has_option_closed(w, option_name0) ==
    LET option_name == IF option_name0 \in DOMAIN w.field_names
                       THEN w.field_names[option_name0] ELSE option_name0
    IN  IF option_name = "" THEN [err |-> "IndexError", result |-> FALSE]
        ELSE IF Head(option_name) \notin UpperCase
             THEN [err |-> "none", result |-> TRUE]
        ELSE IF option_name \notin DOMAIN data
             THEN [err |-> "KeyError", result |-> FALSE]
        ELSE LET option == data[option_name] IN
             IF Len(option) = 2
             THEN [err |-> "none",
                   result |-> /\ version_le(option[1], w.df_info.version)
                              /\ version_le(w.df_info.version, option[2])]
             ELSE [err |-> "none",
                   result |-> version_le(option[1], w.df_info.version)]

\* version_has_option: [err, result]
version_has_option(w, option_name0) ==
    LET option_name == IF option_name0 \in DOMAIN w.field_names
                       THEN w.field_names[option_name0] ELSE option_name0
    IN  IF option_name = "" THEN [err |-> "IndexError", result |-> FALSE]
        ELSE IF Head(option_name) \notin UpperCase
             THEN [err |-> "none", result |-> TRUE]
        ELSE IF option_name \notin DOMAIN data
             THEN [err |-> "KeyError", result |-> FALSE]
        ELSE LET option == data[option_name] IN
             IF Len(option) = 2
             THEN [err |-> "none",
                   result |-> /\ version_le(option[1], w.df_info.version)
                              /\ version_lt(w.df_info.version, option[2])]
             ELSE [err |-> "none",
                   result |-> version_le(option[1], w.df_info.version)]

-----------------------------------------------------------------------------
(* Registration *)

in_files_has(inf, fs) == \E i \in 1..Len(inf) : inf[i].files = fs

in_files_get(inf, fs) ==
    LET i == CHOOSE j \in 1..Len(inf) : inf[j].files = fs IN inf[i].names

\* self.in_files.setdefault(files, []); self.in_files[files].append(name)
in_files_append(inf, fs, name) ==
    IF in_files_has(inf, fs)
    THEN [i \in 1..Len(inf) |->
             IF inf[i].files = fs THEN [inf[i] EXCEPT !.names = Append(@, name)]
             ELSE inf[i]]
    ELSE Append(inf, [files |-> fs, names |-> <<name>>])

\* a variant of register that binds the option to no file
register_unbound(w, name, field_name, default, values, fs) ==
    LET w1 == [w EXCEPT !.field_names = Put(@, name, field_name)]
        has == version_has_option(w1, field_name)
    IN  IF has.err # "none" THEN Raise(w1, has.err)
        ELSE IF ~has.result THEN w1
        ELSE [w1 EXCEPT
                !.settings = Put(@, name, default),
                !.options = Put(@, name, values),
                !.inverse_field_names =
                    IF field_name # name THEN Put(@, field_name, name) ELSE @]

\* what create_option does once it is past its check for re-registration
register(w, name, field_name, default, values, fs) ==
    LET w1 == [w EXCEPT !.field_names = Put(@, name, field_name)]
        has == version_has_option(w1, field_name)
    IN  IF has.err # "none" THEN Raise(w1, has.err)
        ELSE IF ~has.result THEN w1
        ELSE [w1 EXCEPT
                !.settings = Put(@, name, default),
                !.options = Put(@, name, values),
                !.inverse_field_names =
                    IF field_name # name THEN Put(@, field_name, name) ELSE @,
                !.files = Put(@, name, fs),
                !.in_files = in_files_append(@, fs, name)]

\* a variant of create_option that registers whatever the version table says
create_option_ungated(w, name, field_name, default, values, fs) ==
    IF name \in DOMAIN w.settings \/ name \in DOMAIN w.inverse_field_names
    THEN w
    ELSE [w EXCEPT
            !.field_names = Put(@, name, field_name),
            !.settings = Put(@, name, default),
            !.options = Put(@, name, values),
            !.inverse_field_names =
                IF field_name # name THEN Put(@, field_name, name) ELSE @,
            !.files = Put(@, name, fs),
            !.in_files = in_files_append(@, fs, name)]

\* a variant of create_option whose check looks at inverse_field_names only
create_option_again(w, name, field_name, default, values, fs) ==
    IF name \in DOMAIN w.inverse_field_names
    THEN w
    ELSE register(w, name, field_name, default, values, fs)

create_option(w, name, field_name, default, values, fs) ==
    IF name \in DOMAIN w.settings \/ name \in DOMAIN w.inverse_field_names
    THEN w
    ELSE register(w, name, field_name, default, values, fs)

set_value(w, name, value) == [w EXCEPT !.settings = Put(@, name, value)]

\* the index of x in the tuple items (x is in it)
index(items, x) == CHOOSE i \in 1..Len(items) :
                       items[i] = x /\ \A j \in 1..(i - 1) : items[j] # x

\* a variant of cycle_list that keeps a value that is not in the list
cycle_list_keep(current, items0) ==
    IF items0 = None THEN current
    ELSE LET items == IF items0 \in {_disabled, _force_bool, _negated_bool}
                      THEN <<"YES", "NO">> ELSE items0.values
         IN  IF \A i \in 1..Len(items) : items[i] # current THEN current
             ELSE items[(index(items, current) % Len(items)) + 1]

cycle_list(current, items0) ==
    IF items0 = None THEN current
    ELSE LET items == IF items0 \in {_disabled, _force_bool, _negated_bool}
                      THEN <<"YES", "NO">> ELSE items0.values
         IN  IF \A i \in 1..Len(items) : items[i] # current THEN items[1]
             ELSE items[(index(items, current) % Len(items)) + 1]

cycle_item(w, name) ==
    IF name \notin DOMAIN w.settings \/ name \notin DOMAIN w.options
    THEN Raise(w, "KeyError")
    ELSE [w EXCEPT !.settings[name] = cycle_list(w.settings[name], w.options[name])]

\* ["YES", "NO"][["NO", "YES"].index(value)]
swap_yes_no(value) == IF value = "NO" THEN "YES" ELSE "NO"

-----------------------------------------------------------------------------
(* Text codec: read *)

\* the loop of read_file over re.findall: create_option(T, T, V, None, (filename,))
\* for every token [T:V] of the text; an exception ends the loop
RECURSIVE auto_add_options(_, _, _)
auto_add_options(w, filename, matches) ==
    IF matches = <<>> \/ w.err # "none" THEN w
    ELSE auto_add_options(
             create_option(w, Head(matches)[1], Head(matches)[1], Head(matches)[2],
                           None, <<filename>>),
             filename, Tail(matches))

\* a variant of decode_value that stores what a force_bool token holds as it is
decode_value_verbatim(values, captured) ==
    IF values = _negated_bool
    THEN IF captured \notin {"NO", "YES"}
         THEN [err |-> "ValueError", value |-> captured]
         ELSE [err |-> "none", value |-> swap_yes_no(captured)]
    ELSE [err |-> "none", value |-> captured]

\* the value read_file stores for the text a token holds: [err, value]
decode_value(values, captured) ==
    IF values = _force_bool /\ captured # "NO"
    THEN [err |-> "none", value |-> "YES"]
    ELSE IF values = _negated_bool
    THEN IF captured \notin {"NO", "YES"}
         THEN [err |-> "ValueError", value |-> captured]
         ELSE [err |-> "none", value |-> swap_yes_no(captured)]
    ELSE [err |-> "none", value |-> captured]

\* a variant of read_field that stores NO for a toggle found in its !FIELD! form
read_field_symmetric(w, text, field0) ==
    LET field == IF field0 \in DOMAIN w.inverse_field_names
                 THEN w.inverse_field_names[field0] ELSE field0
    IN  IF field \notin DOMAIN w.options \/ field \notin DOMAIN w.field_names
        THEN Raise(w, "KeyError")
        ELSE IF w.options[field] = _disabled
        THEN IF str_find(text, "[" \o w.field_names[field] \o "]", 1) # 0
             THEN [w EXCEPT !.settings = Put(@, field, "YES")]
             ELSE IF str_find(text, "!" \o w.field_names[field] \o "!", 1) # 0
             THEN [w EXCEPT !.settings = Put(@, field, "NO")]
             ELSE w
        ELSE LET match == re_search(w.field_names[field], text, 1)
                 d == decode_value(w.options[field], match.group)
             IN  IF match.start # 0
                 THEN IF d.err # "none" THEN Raise(w, d.err)
                      ELSE [w EXCEPT !.settings = Put(@, field, d.value)]
                 ELSE w

\* a variant of read_field that fails on a value token that is not in the text
read_field_strict(w, text, field0) ==
    LET field == IF field0 \in DOMAIN w.inverse_field_names
                 THEN w.inverse_field_names[field0] ELSE field0
    IN  IF field \notin DOMAIN w.options \/ field \notin DOMAIN w.field_names
        THEN Raise(w, "KeyError")
        ELSE IF w.options[field] = _disabled
        THEN IF str_find(text, "[" \o w.field_names[field] \o "]", 1) # 0
             THEN [w EXCEPT !.settings = Put(@, field, "YES")]
             ELSE w
        ELSE LET match == re_search(w.field_names[field], text, 1)
                 d == decode_value(w.options[field], match.group)
             IN  IF match.start # 0
                 THEN IF d.err # "none" THEN Raise(w, d.err)
                      ELSE [w EXCEPT !.settings = Put(@, field, d.value)]
                 ELSE Raise(w, "AttributeError")

\* the body of read_file's loop over fields, for one field
read_field(w, text, field0) ==
    LET field == IF field0 \in DOMAIN w.inverse_field_names
                 THEN w.inverse_field_names[field0] ELSE field0
    IN  IF field \notin DOMAIN w.options \/ field \notin DOMAIN w.field_names
        THEN Raise(w, "KeyError")
        ELSE IF w.options[field] = _disabled
        THEN IF str_find(text, "[" \o w.field_names[field] \o "]", 1) # 0
             THEN [w EXCEPT !.settings = Put(@, field, "YES")]
             ELSE w
        ELSE LET match == re_search(w.field_names[field], text, 1)
                 d == decode_value(w.options[field], match.group)
             IN  IF match.start # 0
                 THEN IF d.err # "none" THEN Raise(w, d.err)
                      ELSE [w EXCEPT !.settings = Put(@, field, d.value)]
                 ELSE w   \* a warning is printed

RECURSIVE read_fields(_, _, _)
read_fields(w, text, fields) ==
    IF fields = <<>> \/ w.err # "none" THEN w
    ELSE read_fields(read_field(w, text, Head(fields)), text, Tail(fields))

\* a variant of read_file that opens a file that is not there as an empty one
read_file_creating(w, filename, fields, auto_add) ==
    LET w0 == IF w.disk[filename] = NoFile
              THEN [w EXCEPT !.disk[filename] = ""] ELSE w
        text == io_read(w0.disk[filename])
        w1 == IF auto_add
              THEN auto_add_options(w0, filename, re_findall(text, 1))
              ELSE w0
    IN  read_fields(w1, text, fields)

\* read_file with `fields` a list of its own
read_file(w, filename, fields, auto_add) ==
    IF w.disk[filename] = NoFile THEN Raise(w, "IOError")
    ELSE LET text == io_read(w.disk[filename])
             w1 == IF auto_add
                   THEN auto_add_options(w, filename, re_findall(text, 1))
                   ELSE w
         IN  read_fields(w1, text, fields)

\* a variant of read_file_in_files that discovers options in every file
read_file_in_files_discovering(w, filename, fs) ==
    IF w.disk[filename] = NoFile THEN Raise(w, "IOError")
    ELSE LET text == io_read(w.disk[filename])
             w1 == auto_add_options(w, filename, re_findall(text, 1))
         IN  read_fields(w1, text, in_files_get(w1.in_files, fs))

\* read_file(filename, self.in_files[files], len(files) == 1) as read_settings
\* calls it: `fields` is the list object in_files[files], which the
\* registrations of auto_add extend before the loop over it starts
read_file_in_files(w, filename, fs) ==
    IF w.disk[filename] = NoFile THEN Raise(w, "IOError")
    ELSE LET text == io_read(w.disk[filename])
             w1 == IF Len(fs) = 1
                   THEN auto_add_options(w, filename, re_findall(text, 1))
                   ELSE w
         IN  read_fields(w1, text, in_files_get(w1.in_files, fs))

\* the files of one fileset, in order; i is the index of the next file
RECURSIVE read_fileset(_, _, _)
read_fileset(w, fs, i) ==
    IF i > Len(fs) \/ w.err # "none" THEN w
    ELSE read_fileset(read_file_in_files(w, fs[i], fs), fs, i + 1)

\* the filesets in_files held when the loop started, in order
RECURSIVE read_filesets(_, _)
read_filesets(w, keys) ==
    IF keys = <<>> \/ w.err # "none" THEN w
    ELSE read_filesets(read_fileset(w, Head(keys), 1), Tail(keys))

in_files_keys(inf) == [i \in 1..Len(inf) |-> inf[i].files]

read_settings(w) == read_filesets(w, in_files_keys(w.in_files))

-----------------------------------------------------------------------------
(* Static probes: read_value and has_field *)

\* what read_value returns: None, or a string
NoValue == [none |-> TRUE, value |-> ""]
Value(v) == [none |-> FALSE, value |-> v]

\* the matches of field's token in text at or after i, left to right
RECURSIVE re_finditer(_, _, _)
re_finditer(field, text, i) ==
    LET m == re_search(field, text, i) IN
    IF m.start = 0 THEN <<>> ELSE <<m>> \o re_finditer(field, text, m.stop + 1)

\* a variant of read_value that returns the value of the last token
read_value_last(dsk, filename, field) ==
    IF dsk[filename] = NoFile THEN NoValue
    ELSE LET all == re_finditer(field, io_read(dsk[filename]), 1)
         IN  IF all = <<>> THEN NoValue ELSE Value(all[Len(all)].group)

\* read_value(filename, field): the IOError of open is caught
read_value(dsk, filename, field) ==
    IF dsk[filename] = NoFile THEN NoValue
    ELSE LET match == re_search(field, io_read(dsk[filename]), 1)
         IN  IF match.start = 0 THEN NoValue ELSE Value(match.group)

\* a variant of has_field that counts the ":" between the parameters only
has_field_between(dsk, filename, field, num_params, min_params, max_params) ==
    IF dsk[filename] = NoFile THEN FALSE
    ELSE LET match == re_search(field, io_read(dsk[filename]), 1)
             param_count == str_count(match.group, ":", 1)
         IN  IF match.start = 0 THEN FALSE
             ELSE IF num_params # -1 /\ param_count # num_params THEN FALSE
             ELSE IF min_params # -1 /\ param_count < min_params THEN FALSE
             ELSE IF max_params # -1 /\ param_count > max_params THEN FALSE
             ELSE TRUE

\* has_field(filename, field, num_params, min_params, max_params): the group
\* of r'\[FIELD(:.+?)\]' is ":" and then the group of r'\[FIELD:(.+?)\]'
has_field(dsk, filename, field, num_params, min_params, max_params) ==
    IF dsk[filename] = NoFile THEN FALSE
    ELSE LET match == re_search(field, io_read(dsk[filename]), 1)
             params == ":" \o match.group
             param_count == str_count(params, ":", 1)
         IN  IF match.start = 0 THEN FALSE
             ELSE IF num_params # -1 /\ param_count # num_params THEN FALSE
             ELSE IF min_params # -1 /\ param_count < min_params THEN FALSE
             ELSE IF max_params # -1 /\ param_count > max_params THEN FALSE
             ELSE TRUE

-----------------------------------------------------------------------------
(* Text codec: write *)

\* a variant of encode_value that writes a negated_bool value as it is
encode_value_plain(values, value) ==
    IF values = _negated_bool /\ value \notin {"NO", "YES"}
    THEN [err |-> "ValueError", value |-> value]
    ELSE [err |-> "none", value |-> value]

\* the text write_file puts into a token for a value: [err, value]
encode_value(values, value) ==
    IF values = _negated_bool
    THEN IF value \notin {"NO", "YES"}
         THEN [err |-> "ValueError", value |-> value]
         ELSE [err |-> "none", value |-> swap_yes_no(value)]
    ELSE [err |-> "none", value |-> value]

\* a variant of write_field that turns toggles the other way round
write_field_reversed(w, text, field) ==
    IF \/ field \notin DOMAIN w.options
       \/ field \notin DOMAIN w.settings
       \/ field \notin DOMAIN w.field_names
    THEN [err |-> "KeyError", text |-> text]
    ELSE IF w.options[field] = _disabled
    THEN IF w.settings[field] = "NO"
         THEN [err |-> "none",
               text |-> str_replace(text, "!" \o w.field_names[field] \o "!",
                                    "[" \o w.field_names[field] \o "]")]
         ELSE [err |-> "none",
               text |-> str_replace(text, "[" \o w.field_names[field] \o "]",
                                    "!" \o w.field_names[field] \o "!")]
    ELSE LET v == encode_value(w.options[field], w.settings[field])
             repl == "[" \o w.field_names[field] \o ":" \o v.value \o "]"
         IN  IF v.err # "none" THEN [err |-> v.err, text |-> text]
             ELSE IF ~template_ok(repl) THEN [err |-> "re.error", text |-> text]
             ELSE [err |-> "none",
                   text |-> re_sub(w.field_names[field], repl, text)]

\* the body of write_file's loop over fields, for one field: [err, text]
write_field(w, text, field) ==
    IF \/ field \notin DOMAIN w.options
       \/ field \notin DOMAIN w.settings
       \/ field \notin DOMAIN w.field_names
    THEN [err |-> "KeyError", text |-> text]
    ELSE IF w.options[field] = _disabled
    THEN IF w.settings[field] = "NO"
         THEN [err |-> "none",
               text |-> str_replace(text, "[" \o w.field_names[field] \o "]",
                                    "!" \o w.field_names[field] \o "!")]
         ELSE [err |-> "none",
               text |-> str_replace(text, "!" \o w.field_names[field] \o "!",
                                    "[" \o w.field_names[field] \o "]")]
    ELSE LET v == encode_value(w.options[field], w.settings[field])
             repl == "[" \o w.field_names[field] \o ":" \o v.value \o "]"
         IN  IF v.err # "none" THEN [err |-> v.err, text |-> text]
             ELSE IF ~template_ok(repl) THEN [err |-> "re.error", text |-> text]
             ELSE [err |-> "none",
                   text |-> re_sub(w.field_names[field], repl, text)]

\* write_file's loop over fields: [err, text]
RECURSIVE write_fields(_, _, _)
write_fields(w, text, fields) ==
    IF fields = <<>> THEN [err |-> "none", text |-> text]
    ELSE LET r == write_field(w, text, Head(fields)) IN
         IF r.err # "none" THEN r ELSE write_fields(w, r.text, Tail(fields))

\* a variant of write_file that opens the file for writing before it renders
\* the fields
write_file_truncating(w, filename, fields) ==
    IF w.disk[filename] = NoFile THEN Raise(w, "IOError")
    ELSE LET r == write_fields(w, io_read(w.disk[filename]), fields) IN
         IF r.err # "none" THEN [w EXCEPT !.err = r.err, !.disk[filename] = ""]
         ELSE [w EXCEPT !.disk[filename] = io_write(r.text, w.linesep)]

write_file(w, filename, fields) ==
    IF w.disk[filename] = NoFile THEN Raise(w, "IOError")
    ELSE LET r == write_fields(w, io_read(w.disk[filename]), fields) IN
         IF r.err # "none" THEN Raise(w, r.err)
         ELSE [w EXCEPT !.disk[filename] = io_write(r.text, w.linesep)]

RECURSIVE write_fileset(_, _, _)
write_fileset(w, fs, i) ==
    IF i > Len(fs) \/ w.err # "none" THEN w
    ELSE write_fileset(write_file(w, fs[i], in_files_get(w.in_files, fs)), fs, i + 1)

RECURSIVE write_filesets(_, _)
write_filesets(w, keys) ==
    IF keys = <<>> \/ w.err # "none" THEN w
    ELSE write_filesets(write_fileset(w, Head(keys), 1), Tail(keys))

write_settings(w) == write_filesets(w, in_files_keys(w.in_files))

-----------------------------------------------------------------------------
(* create_file *)

\* the line create_file writes for a toggle
text_line(w, text, field) ==
    [err |-> "none",
     text |-> text \o (IF w.settings[field] = "NO" THEN "!" ELSE "[")
                   \o w.field_names[field]
                   \o (IF w.settings[field] = "NO" THEN "!" ELSE "]") \o "\n"]

\* the body of create_file's loop, for one field, appended to the text written
\* so far: [err, text]
create_line(w, text, field) ==
    IF \/ field \notin DOMAIN w.options
       \/ field \notin DOMAIN w.settings
       \/ field \notin DOMAIN w.field_names
    THEN [err |-> "KeyError", text |-> text]
    ELSE IF w.options[field] = _disabled
    THEN text_line(w, text, field)
    ELSE LET e == encode_value(w.options[field], w.settings[field]) IN
         IF e.err # "none" THEN [err |-> e.err, text |-> text]
         ELSE [err |-> "none",
               text |-> text \o "[" \o field \o ":" \o e.value \o "]\n"]

RECURSIVE create_lines(_, _, _)
create_lines(w, text, fields) ==
    IF fields = <<>> THEN [err |-> "none", text |-> text]
    ELSE LET r == create_line(w, text, Head(fields)) IN
         IF r.err # "none" THEN r ELSE create_lines(w, r.text, Tail(fields))

\* create_file(filename, fields): the file is opened for writing, and so
\* emptied, before the loop; when the loop raises, the file is left open, and
\* what was written reaches the disk or not (flushed)
create_file(w, filename, fields, flushed) ==
    LET r == create_lines(w, "", fields) IN
    IF r.err # "none"
    THEN [w EXCEPT !.err = r.err,
                   !.disk[filename] = IF flushed THEN io_write(r.text, w.linesep)
                                      ELSE ""]
    ELSE [w EXCEPT !.disk[filename] = io_write(r.text, w.linesep)]

-----------------------------------------------------------------------------
(* Construction *)

init_txt == "init.txt"
d_init_txt == "d_init.txt"

\* the options __init__ registers, one of each value policy, in its order
catalog(info) ==
    LET init == <<init_txt>>
        dinit == IF version_le(info.version, "0.31.03") THEN init ELSE <<d_init_txt>>
        aquifer_files ==
            IF version_lt(info.version, "0.31")
            THEN <<"matgloss_stone_layer.txt", "matgloss_stone_mineral.txt",
                   "matgloss_stone_soil.txt">>
            ELSE <<"inorganic_stone_layer.txt", "inorganic_stone_mineral.txt",
                   "inorganic_stone_soil.txt">>
        opt(n, f, d, v, fs) ==
            [name |-> n, field_name |-> f, default |-> d, values |-> v, files |-> fs]
    IN  (IF "legacy" \notin info.variations
         THEN <<opt("truetype", "TRUETYPE", "YES", _force_bool, init)>> ELSE <<>>)
        \o <<opt("sound", "SOUND", "YES", boolvals, init),
             opt("volume", "VOLUME", "255", None, init),
             opt("autoSave", "AUTOSAVE", "SEASONAL",
                 Enumerated(<<"NONE", "SEASONAL", "YEARLY">>), dinit),
             opt("entombPets", "COFFIN_NO_PETS_DEFAULT", "NO", _negated_bool, dinit),
             opt("aquifers", "AQUIFER", "NO", _disabled, aquifer_files)>>

RECURSIVE create_options(_, _)
create_options(w, opts) ==
    IF opts = <<>> \/ w.err # "none" THEN w
    ELSE create_options(
             create_option(w, Head(opts).name, Head(opts).field_name,
                           Head(opts).default, Head(opts).values, Head(opts).files),
             Tail(opts))

\* DFConfiguration(base_dir, df_info) on a platform with line separator sep and
\* the files dsk
__init__(info, sep, dsk) ==
    create_options(
        [settings |-> <<>>, options |-> <<>>, field_names |-> <<>>,
         inverse_field_names |-> <<>>, files |-> <<>>, in_files |-> <<>>,
         df_info |-> info, linesep |-> sep, disk |-> dsk, err |-> "none"],
        catalog(info))

-----------------------------------------------------------------------------
(* Installations: a version descriptor, a platform and the files on disk *)

MaxSteps == 3
MaxRegSteps == 2
MaxProbeSteps == 2

FileNames == {init_txt, d_init_txt,
              "inorganic_stone_layer.txt", "inorganic_stone_mineral.txt",
              "inorganic_stone_soil.txt",
              "matgloss_stone_layer.txt", "matgloss_stone_mineral.txt",
              "matgloss_stone_soil.txt"}

\* a disk holding the given files and no others
DiskOf(given) == [f \in FileNames |-> IF f \in DOMAIN given THEN given[f] ELSE NoFile]

\* a current version on POSIX: a repeated token, a comment, toggles in both forms
Modern ==
    [df_info |-> [version |-> "0.34.11", variations |-> {}], linesep |-> "\n",
     disk |-> DiskOf(
         (init_txt :> "[SOUND:YES]\n[VOLUME:255]\nsee [VOLUME:1]\n[TRUETYPE:MAYBE]\n") @@
         (d_init_txt :> "[AUTOSAVE:NONE]\n[COFFIN_NO_PETS_DEFAULT:YES]\n") @@
         ("inorganic_stone_layer.txt" :> "[AQUIFER][SOIL]\n[AQUIFER]\n") @@
         ("inorganic_stone_mineral.txt" :> "!AQUIFER!\n") @@
         ("inorganic_stone_soil.txt" :> "[SOIL]\n"))]

\* files with CRLF line ends on POSIX, tokens the catalog does not know, fields
\* that are missing, values outside their policy
Crlf ==
    [df_info |-> [version |-> "0.34.11", variations |-> {}], linesep |-> "\n",
     disk |-> DiskOf(
         (init_txt :> "[SOUND:NO]\r\n[custom:5]\r\n[CUSTOM:5]\r\n") @@
         (d_init_txt :> "[AUTOSAVE:BOGUS]\n[COFFIN_NO_PETS_DEFAULT:MAYBE]\n") @@
         ("inorganic_stone_layer.txt" :> "!AQUIFER!\n!AQUIFER!\n") @@
         ("inorganic_stone_mineral.txt" :> "[AQUIFER]\n") @@
         ("inorganic_stone_soil.txt" :> "[AQUIFER]\n"))]

\* Windows: os.linesep is CRLF; d_init.txt does not exist
Windows ==
    [df_info |-> [version |-> "0.34.11", variations |-> {}], linesep |-> "\r\n",
     disk |-> DiskOf(
         (init_txt :> "[VOLUME:255]\n[TRUETYPE:NO]\n[custom:5]\n[MACRO_MS:15]\n") @@
         ("inorganic_stone_layer.txt" :> "[AQUIFER]\n") @@
         ("inorganic_stone_mineral.txt" :> "[AQUIFER]\n") @@
         ("inorganic_stone_soil.txt" :> "[AQUIFER]\n"))]

Installations == {Modern, Crlf, Windows}

\* files with a repeated token, tokens of several parameters and a bare token
Probed ==
    [df_info |-> [version |-> "0.34.11", variations |-> {}], linesep |-> "\n",
     disk |-> DiskOf(
         (init_txt :> "[FONT:a.png]\n[FONT:b.png]\n[SOUND:YES]\n[VOLUME:255]\n") @@
         (d_init_txt :> "[SKY:178:3:0]\n[SKY:1]\n[CHASM]\n[AUTOSAVE:NONE]\n") @@
         ("inorganic_stone_layer.txt" :> "[AQUIFER]\n") @@
         ("inorganic_stone_mineral.txt" :> "[AQUIFER]\n") @@
         ("inorganic_stone_soil.txt" :> "[AQUIFER]\n"))]

ProbeInstallations == {Probed, Windows}

\* the versions registration is checked against, and their installation
RegVersions == {"0.21.93.19a", "0.21.104.19d", "0.28.181.40d", "0.31.03",
                "0.31.04", "0.31.12", "0.31.13", "0.40.05"}

RegInstallation(version, variations) ==
    [df_info |-> [version |-> version, variations |-> variations], linesep |-> "\n",
     disk |-> DiskOf(
         (init_txt :> "[SOUND:YES]\n[TRUETYPE:NO]\n[truetype:Q]\n[VOLUME:1]\n") @@
         (d_init_txt :> "[AUTOSAVE:YEARLY]\n[COFFIN_NO_PETS_DEFAULT:NO]\n") @@
         ("inorganic_stone_layer.txt" :> "[AQUIFER]\n[tile:1]\n") @@
         ("inorganic_stone_mineral.txt" :> "[AQUIFER]\n") @@
         ("inorganic_stone_soil.txt" :> "[AQUIFER]\n") @@
         ("matgloss_stone_layer.txt" :> "[AQUIFER]\n") @@
         ("matgloss_stone_mineral.txt" :> "!AQUIFER!\n") @@
         ("matgloss_stone_soil.txt" :> "[AQUIFER]\n"))]

RegInstallations ==
    {RegInstallation(v, {}) : v \in RegVersions}
    \cup {RegInstallation("0.31.13", {"legacy"})}

\* the assignments callers make with set_value
Values == {"7", "", "\\1", "a\nb"}
Assignments ==
    ({"volume"} \X Values)
    \cup ({"entombPets", "aquifers"} \X {"YES", "NO"})
    \cup {<<"sound", "NO">>, <<"entombPets", "7">>, <<"aquifers", "7">>}

\* the registrations callers make after construction
Registrations ==
    { [name |-> "sound", field_name |-> "SOUND", default |-> "NO",
       values |-> None, files |-> <<init_txt>>],
      [name |-> "SOUND", field_name |-> "SOUND", default |-> "1",
       values |-> None, files |-> <<init_txt>>],
      [name |-> "vol2", field_name |-> "VOLUME", default |-> "9",
       values |-> None, files |-> <<init_txt>>],
      [name |-> "truetype", field_name |-> "VOLUME", default |-> "1",
       values |-> None, files |-> <<d_init_txt>>],
      [name |-> "macro", field_name |-> "MACRO_MS", default |-> "15",
       values |-> boolvals, files |-> <<init_txt>>],
      [name |-> "black", field_name |-> "BLACK_B", default |-> "0",
       values |-> None, files |-> <<init_txt>>],
      [name |-> "x", field_name |-> "NOSUCH", default |-> "1",
       values |-> None, files |-> <<init_txt>>],
      [name |-> "y", field_name |-> "truetype", default |-> "1",
       values |-> None, files |-> <<init_txt>>] }

\* the values and policies cycle_list is called with
Currents == {"NONE", "YEARLY", "BOGUS", "YES", "NO", "A"}
Policies == {None, _disabled, _force_bool, _negated_bool, boolvals,
             Enumerated(<<"NONE", "SEASONAL", "YEARLY">>),
             Enumerated(<<"A", "B", "A">>)}

\* how a call's boolean result is shown
Bool(b) == IF b THEN "True" ELSE "False"

\* the calls of create_file callers make: <<filename, fields>>
CreateFileCalls ==
    {<<init_txt, <<"sound", "volume", "truetype">>>>,
     <<d_init_txt, <<"autoSave", "entombPets">>>>,
     <<"inorganic_stone_soil.txt", <<"aquifers">>>>,
     <<init_txt, <<"sound", "nosuch", "volume">>>>}

\* the calls of read_value callers make: <<filename, field>>
ReadValueCalls == {init_txt, d_init_txt} \X {"FONT", "GRAPHICS_FONT", "SKY", "CHASM"}

\* the limits has_field is called with: <<num_params, min_params, max_params>>
Limits == {<<-1, -1, -1>>, <<3, -1, -1>>, <<1, -1, -1>>, <<-1, 3, -1>>,
           <<-1, 4, -1>>, <<-1, -1, 3>>, <<-1, -1, 2>>, <<3, 1, 3>>, <<-1, 2, 2>>}

\* the calls of has_field callers make: <<filename, field, limits>>
HasFieldCalls ==
    ({d_init_txt} \X {"SKY", "CHASM"} \X Limits)
    \cup ({init_txt} \X {"FONT", "SKY"} \X {<<-1, -1, -1>>, <<1, -1, -1>>, <<2, -1, -1>>})

\* the names version_has_option is asked about
OptionNames == {"truetype", "TRUETYPE", "SOUND", "BLACK_B", "EXTENDED_ASCII",
                "MACRO_MS", "STRICT_POPULATION_CAP", "custom", "NOSUCH", ""}

NoCall == [op |-> "none", name |-> "", value |-> "", filename |-> "",
           fields |-> <<>>, auto_add |-> FALSE, reg |-> <<>>, items |-> <<>>,
           limits |-> <<-1, -1, -1>>, pre |-> <<>>]
\* a call of op in the present state
Call(op) == [NoCall EXCEPT !.op = op, !.pre = World]
NoTrip == [stage |-> "none", name |-> "", value |-> "", filename |-> "",
           present |-> FALSE]

\* the registry, disk and outcome of w become the next state
Install(w0) == \E w \in {w0} :
    /\ settings' = w.settings
    /\ options' = w.options
    /\ field_names' = w.field_names
    /\ inverse_field_names' = w.inverse_field_names
    /\ files' = w.files
    /\ in_files' = w.in_files
    /\ disk' = w.disk
    /\ err' = w.err
    /\ UNCHANGED <<df_info, linesep, limit>>
    /\ steps' = steps + 1

InitWith(inst, n) ==
    LET w == __init__(inst.df_info, inst.linesep, inst.disk) IN
    /\ settings = w.settings
    /\ options = w.options
    /\ field_names = w.field_names
    /\ inverse_field_names = w.inverse_field_names
    /\ files = w.files
    /\ in_files = w.in_files
    /\ df_info = w.df_info
    /\ linesep = w.linesep
    /\ disk = w.disk
    /\ err = w.err
    /\ last = NoCall
    /\ trip = NoTrip
    /\ ret = "none"
    /\ steps = 0
    /\ limit = n

Init == \E inst \in Installations : InitWith(inst, MaxSteps)

\* the names of a list, as a set
Elems(seq) == {seq[i] : i \in 1..Len(seq)}

\* the file names the registry knows, and the lists of names bound to them
KnownFiles == UNION {Elems(in_files[i].files) : i \in 1..Len(in_files)}
ListsOf(filename) ==
    {in_files[i].names : i \in {j \in 1..Len(in_files) : filename \in Elems(in_files[j].files)}}

\* the calls of read_file and write_file callers make: <<filename, fields>>,
\* and for read_file <<filename, fields, auto_add>>
LayerFiles == {f \in KnownFiles : str_find(f, "layer", 1) # 0}
CodecFiles == {init_txt, d_init_txt} \cup LayerFiles
WriteCalls ==
    UNION {{<<f, l>> : l \in ListsOf(f)} : f \in CodecFiles}
    \cup {<<init_txt, <<"volume">>>>}
ReadCalls ==
    {<<c[1], c[2], FALSE>> : c \in WriteCalls}
    \cup {<<init_txt, l, TRUE>> : l \in ListsOf(init_txt)}
    \cup {<<init_txt, <<"VOLUME", "sound">>, FALSE>>}

-----------------------------------------------------------------------------
(* Operations *)

CreateOption ==
    \E r \in Registrations :
        /\ steps < limit
        /\ Install(create_option(World, r.name, r.field_name, r.default,
                                 r.values, r.files))
        /\ last' = [Call("create_option") EXCEPT !.name = r.name, !.reg = r]
        /\ trip' = NoTrip
        /\ ret' = "none"

VersionHasOption ==
    \E option_name \in OptionNames :
        /\ steps < limit
        /\ LET has == version_has_option(World, option_name) IN
           /\ Install(Raise(World, has.err))
           /\ ret' = IF has.err # "none" THEN "none"
                     ELSE IF has.result THEN "True" ELSE "False"
        /\ last' = [Call("version_has_option") EXCEPT !.name = option_name]
        /\ trip' = NoTrip

SetValue ==
    \E a \in Assignments :
        /\ steps < limit
        /\ Install(set_value(World, a[1], a[2]))
        /\ last' = [Call("set_value") EXCEPT !.name = a[1], !.value = a[2]]
        /\ trip' = [NoTrip EXCEPT !.stage = "set", !.name = a[1], !.value = a[2]]
        /\ ret' = "none"

CycleList ==
    \E current \in Currents, items \in Policies :
        /\ steps < limit
        /\ Install(World)
        /\ ret' = cycle_list(current, items)
        /\ last' = [Call("cycle_list") EXCEPT !.value = current, !.items = items]
        /\ trip' = NoTrip

CreateFile ==
    \E c \in CreateFileCalls, flushed \in BOOLEAN :
        /\ steps < limit
        /\ Install(create_file(World, c[1], c[2], flushed))
        /\ last' = [Call("create_file") EXCEPT !.filename = c[1], !.fields = c[2]]
        /\ trip' = NoTrip
        /\ ret' = "none"

ReadValue ==
    \E c \in ReadValueCalls :
        /\ steps < limit
        /\ Install(World)
        /\ LET r == read_value(disk, c[1], c[2]) IN
           ret' = IF r.none THEN "None" ELSE "'" \o r.value \o "'"
        /\ last' = [Call("read_value") EXCEPT !.filename = c[1], !.name = c[2]]
        /\ trip' = NoTrip

HasField ==
    \E c \in HasFieldCalls :
        /\ steps < limit
        /\ Install(World)
        /\ ret' = Bool(has_field(disk, c[1], c[2], c[3][1], c[3][2], c[3][3]))
        /\ last' = [Call("has_field") EXCEPT !.filename = c[1], !.name = c[2],
                                             !.limits = c[3]]
        /\ trip' = NoTrip

CycleItem ==
    \E name \in {"sound", "autoSave", "volume", "truetype", "entombPets",
                 "aquifers"} :
        /\ steps < limit
        /\ Install(cycle_item(World, name))
        /\ last' = [Call("cycle_item") EXCEPT !.name = name]
        /\ trip' = NoTrip
        /\ ret' = "none"

ReadSettings ==
    /\ steps < limit
    /\ Install(read_settings(World))
    /\ last' = Call("read_settings")
    /\ trip' = NoTrip
    /\ ret' = "none"

ReadFile ==
    \E c \in ReadCalls :
      LET filename == c[1]
          fields == c[2]
          auto_add == c[3]
      IN
        /\ steps < limit
        /\ Install(read_file(World, filename, fields, auto_add))
        /\ last' = [Call("read_file") EXCEPT !.filename = filename,
                                  !.fields = fields, !.auto_add = auto_add]
        /\ trip' = IF /\ trip.stage = "written"
                      /\ trip.filename = filename
                      /\ trip.name \in Elems(fields)
                   THEN [trip EXCEPT !.stage = "read"]
                   ELSE NoTrip
        /\ ret' = "none"

WriteSettings ==
    /\ steps < limit
    /\ Install(write_settings(World))
    /\ last' = Call("write_settings")
    /\ trip' = NoTrip
    /\ ret' = "none"

\* whether the token [FIELD:value] of option name occurs in the file
TokenPresent(w, name, filename) ==
    /\ name \in DOMAIN w.field_names
    /\ w.disk[filename] # NoFile
    /\ re_search(w.field_names[name], io_read(w.disk[filename]), 1).start # 0

WriteFile ==
    \E c \in WriteCalls :
      LET filename == c[1]
          fields == c[2]
      IN
        /\ steps < limit
        /\ Install(write_file(World, filename, fields))
        /\ last' = [Call("write_file") EXCEPT !.filename = filename,
                                  !.fields = fields]
        /\ trip' = IF /\ trip.stage = "set"
                      /\ trip.name \in Elems(fields)
                      /\ write_file(World, filename, fields).err = "none"
                   THEN [trip EXCEPT !.stage = "written", !.filename = filename,
                                     !.present = TokenPresent(World, trip.name, filename)]
                   ELSE NoTrip
        /\ ret' = "none"

\* the codec: values set, written and read back
Next ==
    \/ SetValue
    \/ ReadSettings
    \/ ReadFile
    \/ WriteSettings
    \/ WriteFile

Spec == Init /\ [][Next]_vars

\* registration: options created, cycled and looked up in the version table
InitReg == \E inst \in RegInstallations : InitWith(inst, MaxRegSteps)

NextReg ==
    \/ CreateOption
    \/ VersionHasOption
    \/ CycleItem
    \/ ReadSettings
    \/ WriteSettings
    \/ SetValue
    \/ ReadFile
    \/ WriteFile

SpecReg == InitReg /\ [][NextReg]_vars

\* the static methods and the operations that work on one value or one file
InitProbe == \E inst \in ProbeInstallations : InitWith(inst, MaxProbeSteps)

NextProbe ==
    \/ CycleList
    \/ CycleItem
    \/ ReadValue
    \/ HasField
    \/ CreateFile

SpecProbe == InitProbe /\ [][NextProbe]_vars

-----------------------------------------------------------------------------
(* Vocabulary of the properties *)

Chars(s) == {Char(s, i) : i \in 1..Len(s)}

\* the name x stands for in a map of names: names[x] when x is in it, else x
Resolved(names, x) == IF x \in DOMAIN names THEN names[x] ELSE x

\* a value that is not empty and holds no bracket, "!", backslash or line break
Simple(v) == v # "" /\ Chars(v) \cap {"[", "]", "!", "\\", "\n", "\r"} = {}

\* the values held by the matches of field's token in text, left to right
RECURSIVE re_groups(_, _, _)
re_groups(field, text, i) ==
    LET m == re_search(field, text, i) IN
    IF m.start = 0 THEN <<>>
    ELSE <<m.group>> \o re_groups(field, text, m.stop + 1)

\* the text of the file the last call named, before and after the call
TextBefore == io_read(last.pre.disk[last.filename])
TextAfter == io_read(disk[last.filename])

\* the last call was write_file and it returned
Wrote == last.op = "write_file" /\ err = "none"

\* bytes with every token of the fields taken out
RECURSIVE Outside(_, _)
Outside(bytes, fields) ==
    IF fields = <<>> THEN bytes
    ELSE LET fn == field_names[Head(fields)]
             rest == Outside(bytes, Tail(fields))
         IN  IF options[Head(fields)] = _disabled
             THEN str_replace(str_replace(rest, "[" \o fn \o "]", ""),
                              "!" \o fn \o "!", "")
             ELSE re_sub(fn, "", rest)

-----------------------------------------------------------------------------
(* Properties of the codec, checked under Spec *)

\* the case of a value round trip: the option is registered with a policy that
\* stores values as they are, its token is in the file, the value holds no "]"
RoundTripCase ==
    /\ trip.present
    /\ trip.name \in DOMAIN options
    /\ options[trip.name].kind \in {"None", "values"}
    /\ "]" \notin Chars(trip.value)

\* a registry constructed anew over the present disk reads the file of the trip
FreshRead ==
    read_file(__init__(df_info, linesep, disk), trip.filename, <<trip.name>>, FALSE)

\* C1: a value V without "]" set on an option whose policy stores values as
\* they are and whose token is in the file, then written by write_file, is
\* read back as V by read_file, in the same registry and in a fresh one.
C1_RoundTrip ==
    /\ (trip.stage = "read" /\ err = "none" /\ RoundTripCase)
            => settings[trip.name] = trip.value
    /\ (trip.stage = "written" /\ RoundTripCase
        /\ trip.name \in DOMAIN FreshRead.settings)
            => FreshRead.settings[trip.name] = trip.value

\* every value write_file wrote is simple, and no two fields of the call share
\* an on-disk field name
SimpleCall ==
    /\ \A F \in Elems(last.fields) :
            options[F] # _disabled => Simple(settings[F])
    /\ \A F, G \in Elems(last.fields) :
            F # G => field_names[F] # field_names[G]

\* C2 (as the code has it): write_file rewrites every occurrence of a field's
\* token.  After a write of simple values every token [FIELD:...] of a written
\* field holds the value written; for a toggle, no occurrence of the form to
\* turn is left.
C2_EveryOccurrence ==
    (Wrote /\ SimpleCall) =>
        \A F \in Elems(last.fields) :
            LET fn == field_names[F]
                turned == IF settings[F] = "NO" THEN "[" \o fn \o "]"
                          ELSE "!" \o fn \o "!"
                a == re_groups(fn, TextAfter, 1)
            IN  IF options[F] = _disabled
                THEN str_count(TextAfter, turned, 1) = 0
                ELSE \A i \in 1..Len(a) :
                        a[i] = encode_value(options[F], settings[F]).value

\* a write of simple values into a file that holds a field's token twice, the
\* second with a value other than the one written
C2_Witness ==
    /\ Wrote
    /\ SimpleCall
    /\ \E F \in Elems(last.fields) :
            /\ options[F] # _disabled
            /\ LET b == re_groups(field_names[F], TextBefore, 1)
                   a == re_groups(field_names[F], TextAfter, 1)
               IN  Len(b) >= 2 /\ Len(a) >= 2 /\ a[2] # b[2]

\* C2 (as stated): when a field's token occurs more than once, write_file
\* rewrites the first occurrence only and leaves every later one as it was.
C2_OnlyFirst ==
    Wrote =>
        \A F \in Elems(last.fields) :
            LET fn == field_names[F]
                turned == IF settings[F] = "NO" THEN "[" \o fn \o "]"
                          ELSE "!" \o fn \o "!"
                b == re_groups(fn, TextBefore, 1)
                a == re_groups(fn, TextAfter, 1)
            IN  IF options[F] = _disabled
                THEN str_count(TextBefore, turned, 1) >= 2
                        => str_count(TextAfter, turned, 1)
                               = str_count(TextBefore, turned, 1) - 1
                ELSE Len(b) >= 2
                        => /\ Len(a) = Len(b)
                           /\ \A i \in 2..Len(b) : a[i] = b[i]

\* C3: write_file changes nothing but the tokens of the fields it is given:
\* every byte of the file outside those tokens, line endings included, is the
\* same after the call as before it.
C3_OutsidePreserved ==
    Wrote =>
        Outside(disk[last.filename], last.fields)
            = Outside(last.pre.disk[last.filename], last.fields)

\* the pairs <<T, V>> of the tokens [T:V] of the file read_file was given
TokensRead == re_findall(TextBefore, 1)

\* the value of the first token named T
FirstValue(T) ==
    LET i == CHOOSE i \in 1..Len(TokensRead) :
                /\ TokensRead[i][1] = T
                /\ \A j \in 1..(i - 1) : TokensRead[j][1] # T
    IN  TokensRead[i][2]

\* C4: read_file with auto_add on a single file registers every token [T:V]
\* of the file whose T is not yet registered: internal name and on-disk field
\* name T, value V, unconstrained policy, bound to that file.
C4_AutoDiscovery ==
    (last.op = "read_file" /\ last.auto_add) =>
        \A i \in 1..Len(TokensRead) :
            LET T == TokensRead[i][1] IN
            (T \notin DOMAIN last.pre.settings
             /\ T \notin DOMAIN last.pre.inverse_field_names)
                => /\ err = "none"
                   /\ T \in DOMAIN settings
                   /\ settings[T] = FirstValue(T)
                   /\ field_names[T] = T
                   /\ options[T] = None
                   /\ files[T] = <<last.filename>>

\* the case of a negation round trip: a negated_bool option whose token is
\* in the file, set to YES or NO
NegatedTrip ==
    /\ trip.present
    /\ trip.name \in DOMAIN options
    /\ options[trip.name] = _negated_bool
    /\ trip.value \in {"YES", "NO"}

\* C9: for a negated_bool option whose token is in the file and v in
\* {YES, NO}, set_value(name, v) then write_file leaves the opposite of v in
\* every token of the option in the file, and a read_file after that stores v
\* again.
C9_NegationRoundTrip ==
    /\ (trip.stage = "written" /\ NegatedTrip) =>
            LET held == re_groups(field_names[trip.name],
                                  io_read(disk[trip.filename]), 1)
            IN  /\ held # <<>>
                /\ \A i \in 1..Len(held) :
                       held[i] = IF trip.value = "YES" THEN "NO" ELSE "YES"
    /\ (trip.stage = "read" /\ NegatedTrip) =>
            err = "none" /\ settings[trip.name] = trip.value

\* YES was set on a negated_bool option, written as NO and read back as YES
C9_Witness ==
    /\ trip.stage = "read"
    /\ NegatedTrip
    /\ trip.value = "YES"
    /\ re_groups(field_names[trip.name], io_read(disk[trip.filename]), 1)
           = <<"NO">>
    /\ settings[trip.name] = "YES"

\* the force_bool options among the fields read_file was given whose token
\* is in the file
ForcedFound ==
    {F \in {Resolved(inverse_field_names, last.fields[i]) : i \in 1..Len(last.fields)} :
        /\ F \in DOMAIN options
        /\ options[F] = _force_bool
        /\ re_search(field_names[F], TextBefore, 1).start # 0}

\* C10: for a force_bool option whose token [FIELD:X] read_file finds, the
\* value stored is NO when X is NO and YES for every other X.
C10_ForceBoolRead ==
    (last.op = "read_file" /\ err = "none") =>
        \A F \in ForcedFound :
            settings[F] = IF re_search(field_names[F], TextBefore, 1).group = "NO"
                          THEN "NO" ELSE "YES"

\* read_file found a force_bool token holding neither YES nor NO and stored YES
C10_Witness ==
    /\ last.op = "read_file"
    /\ err = "none"
    /\ \E F \in ForcedFound :
            /\ re_search(field_names[F], TextBefore, 1).group \notin {"YES", "NO"}
            /\ settings[F] = "YES"

\* the toggle options among the fields read_file was given
TogglesRead ==
    {F \in {Resolved(inverse_field_names, last.fields[i]) : i \in 1..Len(last.fields)} :
        F \in DOMAIN options /\ options[F] = _disabled}

\* C11: for a toggle option read_file stores YES when the text holds [FIELD]
\* and otherwise (the text holds !FIELD! or neither form) leaves the value as
\* it was; no read_file and no read_settings turns a toggle option to NO.
C11_ToggleRead ==
    /\ (last.op = "read_file" /\ err = "none") =>
            \A F \in TogglesRead :
                settings[F] =
                    IF str_find(TextBefore, "[" \o field_names[F] \o "]", 1) # 0
                    THEN "YES" ELSE last.pre.settings[F]
    /\ last.op \in {"read_file", "read_settings"} =>
            \A F \in DOMAIN last.pre.options :
                (last.pre.options[F] = _disabled /\ settings[F] = "NO")
                    => last.pre.settings[F] = "NO"

\* read_file read a toggle set to YES from a file that holds it as !FIELD!
\* only, and the value is still YES
C11_Witness ==
    /\ last.op = "read_file"
    /\ err = "none"
    /\ \E F \in TogglesRead :
            /\ str_find(TextBefore, "[" \o field_names[F] \o "]", 1) = 0
            /\ str_find(TextBefore, "!" \o field_names[F] \o "!", 1) # 0
            /\ last.pre.settings[F] = "YES"
            /\ settings[F] = "YES"

\* the last call was write_file for one field, a toggle, on a file that exists
ToggleWrite ==
    /\ last.op = "write_file"
    /\ Len(last.fields) = 1
    /\ last.fields[1] \in DOMAIN last.pre.options
    /\ last.pre.options[last.fields[1]] = _disabled
    /\ last.pre.disk[last.filename] # NoFile

\* the form of the toggle write_file replaces, and the form it puts in
FormReplaced ==
    IF settings[last.fields[1]] = "NO"
    THEN "[" \o field_names[last.fields[1]] \o "]"
    ELSE "!" \o field_names[last.fields[1]] \o "!"
FormWritten ==
    IF settings[last.fields[1]] = "NO"
    THEN "!" \o field_names[last.fields[1]] \o "!"
    ELSE "[" \o field_names[last.fields[1]] \o "]"

\* C12: for a toggle option write_file turns [FIELD] into !FIELD! when the
\* value is NO and !FIELD! into [FIELD] for any other value, and changes no
\* other text; when the form to replace is not in the text the text stays as
\* it was; no error is raised.
C12_ToggleWrite ==
    ToggleWrite =>
        /\ err = "none"
        /\ TextAfter = str_replace(TextBefore, FormReplaced, FormWritten)
        /\ str_find(TextBefore, FormReplaced, 1) = 0 => TextAfter = TextBefore

\* write_file turned the !FIELD! of the text into [FIELD] for a value that is
\* neither NO nor YES
C12_Witness ==
    /\ ToggleWrite
    /\ err = "none"
    /\ settings[last.fields[1]] \notin {"NO", "YES"}
    /\ str_find(TextBefore, FormReplaced, 1) # 0
    /\ str_find(TextAfter, FormReplaced, 1) = 0
    /\ str_find(TextAfter, FormWritten, 1) # 0

\* the options with a value token among the fields read_file was given
ValuesRead ==
    {F \in {Resolved(inverse_field_names, last.fields[i]) : i \in 1..Len(last.fields)} :
        F \in DOMAIN options /\ options[F] # _disabled}

\* the first token of option F in the text read_file was given; start is 0
\* when there is none
FirstToken(F) == re_search(field_names[F], TextBefore, 1)

\* read_file was given an existing file, a list of registered options and no
\* auto_add
PlainRead ==
    /\ last.op = "read_file"
    /\ ~last.auto_add
    /\ last.pre.disk[last.filename] # NoFile
    /\ \A i \in 1..Len(last.fields) :
            Resolved(last.pre.inverse_field_names, last.fields[i])
                \in DOMAIN last.pre.options

\* C14: read_file does not fail on a value field whose token is not in the
\* text: it fails only on a negated_bool token holding neither YES nor NO, and
\* when it returns, every value field without a token keeps its value while
\* every value field with a token holds the value read from its first token.
C14_MissingField ==
    PlainRead =>
        /\ err # "none" =>
                \E F \in ValuesRead :
                    /\ options[F] = _negated_bool
                    /\ FirstToken(F).start # 0
                    /\ FirstToken(F).group \notin {"YES", "NO"}
        /\ err = "none" =>
                \A F \in ValuesRead :
                    settings[F] =
                        IF FirstToken(F).start = 0 THEN last.pre.settings[F]
                        ELSE decode_value(options[F], FirstToken(F).group).value

\* read_file skipped a field without a token and then read a new value for a
\* later field of the same call
C14_Witness ==
    /\ PlainRead
    /\ err = "none"
    /\ \E i, j \in 1..Len(last.fields) :
            LET F == Resolved(inverse_field_names, last.fields[i])
                G == Resolved(inverse_field_names, last.fields[j])
            IN  /\ i < j
                /\ F \in ValuesRead
                /\ G \in ValuesRead
                /\ FirstToken(F).start = 0
                /\ FirstToken(G).start # 0
                /\ settings[G] # last.pre.settings[G]

\* the negated_bool options of the names that hold neither YES nor NO
BadNegated(w, names) ==
    {F \in Elems(names) :
        /\ F \in DOMAIN w.options
        /\ F \in DOMAIN w.settings
        /\ w.options[F] = _negated_bool
        /\ w.settings[F] \notin {"YES", "NO"}}

\* the filesets of in_files before the call whose list has such an option
BadFilesets ==
    {i \in 1..Len(last.pre.in_files) :
        BadNegated(last.pre, last.pre.in_files[i].names) # {}}

\* the first of them
FirstBad == CHOOSE i \in BadFilesets : \A j \in BadFilesets : i <= j

\* what write_file alone would make of file j of fileset i
WrittenAlone(i, j) ==
    write_file(last.pre, last.pre.in_files[i].files[j], last.pre.in_files[i].names)

\* C21: write_file on an existing file with a negated_bool option that holds
\* neither YES nor NO raises, and leaves the file's bytes, every other file
\* and the settings as they were.  write_settings then raises too: the files
\* of that fileset and of the filesets after it are as they were, the settings
\* are as they were, and every file of a fileset before it that write_file
\* rewrites without an error holds what write_file wrote.
C21_NegatedWriteFails ==
    /\ (/\ last.op = "write_file"
        /\ last.pre.disk[last.filename] # NoFile
        /\ BadNegated(last.pre, last.fields) # {}) =>
            /\ err # "none"
            /\ disk = last.pre.disk
            /\ settings = last.pre.settings
    /\ (/\ last.op = "write_settings"
        /\ BadFilesets # {}
        /\ \A f \in Elems(last.pre.in_files[FirstBad].files) :
                last.pre.disk[f] # NoFile) =>
            /\ err # "none"
            /\ settings = last.pre.settings
            /\ \A i \in 1..Len(last.pre.in_files) :
                   \A j \in 1..Len(last.pre.in_files[i].files) :
                       LET f == last.pre.in_files[i].files[j] IN
                       IF i >= FirstBad THEN disk[f] = last.pre.disk[f]
                       ELSE (err = "ValueError" /\ WrittenAlone(i, j).err = "none")
                                => disk[f] = WrittenAlone(i, j).disk[f]

\* write_settings rewrote a file and then raised on a negated_bool option
\* holding neither YES nor NO, whose file it left as it was
C21_Witness ==
    /\ last.op = "write_settings"
    /\ BadFilesets # {}
    /\ err = "ValueError"
    /\ \E i \in 1..(FirstBad - 1) :
            disk[last.pre.in_files[i].files[1]]
                # last.pre.disk[last.pre.in_files[i].files[1]]
    /\ \A f \in Elems(last.pre.in_files[FirstBad].files) :
            disk[f] = last.pre.disk[f] /\ disk[f] # NoFile

-----------------------------------------------------------------------------
(* Properties of registration, checked under SpecReg *)

\* the six maps of a registry
Registry(w) == <<w.settings, w.options, w.field_names, w.inverse_field_names,
                 w.files, w.in_files>>

\* whether the version is in the range of a table entry
InRange(entry, version) ==
    IF Len(entry) = 2
    THEN version_le(entry[1], version) /\ version_lt(version, entry[2])
    ELSE version_le(entry[1], version)

\* the table has the field and the active version is outside its range
TableLacks(F) == F \in DOMAIN data /\ ~InRange(data[F], df_info.version)

\* the names recorded for a field the active version lacks, and not registered
GatedNames(w) ==
    {n \in DOMAIN w.field_names :
        n \notin DOMAIN w.settings /\ TableLacks(w.field_names[n])}

\* the last call was create_option, it was not a re-registration, and the
\* active version lacks its field
GatedCall ==
    /\ last.op = "create_option"
    /\ last.name \notin DOMAIN last.pre.settings
    /\ last.name \notin DOMAIN last.pre.inverse_field_names
    /\ TableLacks(Resolved(Put(last.pre.field_names, last.name, last.reg.field_name),
                           last.reg.field_name))

\* the name is recorded in field_names and in no other map
RecordedOnly(name, field_name) ==
    /\ name \in DOMAIN field_names
    /\ field_names[name] = field_name
    /\ name \notin DOMAIN settings
    /\ name \notin DOMAIN options
    /\ name \notin DOMAIN files
    /\ name \notin DOMAIN inverse_field_names
    /\ \A f \in DOMAIN inverse_field_names : inverse_field_names[f] # name
    /\ \A i \in 1..Len(in_files) : name \notin Elems(in_files[i].names)

\* the files read_settings reads with discovery of unknown tokens
DiscoveryFiles(w) ==
    {w.in_files[i].files[1] :
        i \in {j \in 1..Len(w.in_files) :
                 Len(w.in_files[j].files) = 1
                 /\ w.disk[w.in_files[j].files[1]] # NoFile}}

\* a token [n:...] spelled as the name n is in a file read with discovery
NamedByToken(w, n) ==
    \E f \in DiscoveryFiles(w) :
        \E i \in 1..Len(re_findall(io_read(w.disk[f]), 1)) :
            re_findall(io_read(w.disk[f]), 1)[i][1] = n

\* C5 (as the code has it): a create_option call for a field the active
\* version lacks records field_names[name] = fieldName and nothing else;
\* write_settings and cycle_item leave every such name as it is, recorded and
\* not registered, and cycle_item on it raises a lookup error; read_settings
\* leaves it so unless a file read with discovery holds a token spelled as the
\* name.
C5_VersionGated ==
    /\ GatedCall => err = "none" /\ RecordedOnly(last.name, last.reg.field_name)
    /\ last.op \in {"write_settings", "cycle_item"} =>
            \A n \in GatedNames(last.pre) :
                /\ RecordedOnly(n, last.pre.field_names[n])
                /\ (last.op = "cycle_item" /\ last.name = n) => err = "KeyError"
    /\ last.op = "read_settings" =>
            \A n \in GatedNames(last.pre) :
                \/ RecordedOnly(n, last.pre.field_names[n])
                \/ NamedByToken(last.pre, n)

\* a registration for a field the active version lacks has been made
C5_Witness == GatedCall /\ RecordedOnly(last.name, last.reg.field_name)

\* C5 (as stated): a name recorded for a field the active version lacks is in
\* field_names only, and no later read_settings, write_settings or cycle_item
\* registers or changes it.
C5_NeverTouched ==
    /\ GatedCall => RecordedOnly(last.name, last.reg.field_name)
    /\ last.op \in {"read_settings", "write_settings", "cycle_item"} =>
            \A n \in GatedNames(last.pre) :
                RecordedOnly(n, last.pre.field_names[n])

\* C6 (as the code has it): a create_option call whose name is registered (it
\* is in settings) changes nothing and raises nothing.
C6_RegisteredNameWins ==
    (last.op = "create_option" /\ last.name \in DOMAIN last.pre.settings)
        => err = "none" /\ Registry(World) = Registry(last.pre)

\* create_option was called again for a registered name, with another default
C6_Witness ==
    /\ last.op = "create_option"
    /\ last.name \in DOMAIN last.pre.settings
    /\ last.reg.default # last.pre.settings[last.name]
    /\ Registry(World) = Registry(last.pre)

\* C6 (as stated): a create_option call whose name was given to an earlier
\* create_option call changes nothing: what the first call recorded, the
\* field_names entry included, stays.
C6_FirstNameWins ==
    (last.op = "create_option" /\ last.name \in DOMAIN last.pre.field_names)
        => /\ field_names[last.name] = last.pre.field_names[last.name]
           /\ Registry(World) = Registry(last.pre)

\* C7: a create_option call whose field name maps in inverse_field_names to
\* another name changes nothing, so inverse_field_names[f] stays the first
\* name registered for f and no two registered options have one field name.
C7_FirstFieldNameWins ==
    /\ (/\ last.op = "create_option"
        /\ last.reg.field_name \in DOMAIN last.pre.inverse_field_names
        /\ last.pre.inverse_field_names[last.reg.field_name] # last.name)
            => Registry(World) = Registry(last.pre)
    /\ \A m, n \in DOMAIN settings :
            (m \in DOMAIN field_names /\ n \in DOMAIN field_names
             /\ field_names[m] = field_names[n]) => m = n

\* C8 (as the code has it): version_has_option(x) answers for the field name
\* field_names[x] when x is a recorded name, and for x otherwise: true when
\* that name does not start with an upper-case letter; a lookup error when it
\* does and the table lacks it; otherwise whether the version is in the
\* entry's range, which is half-open when the entry has two versions.
C8_VersionHasOption ==
    (last.op = "version_has_option" /\ last.name # "") =>
        LET F == Resolved(last.pre.field_names, last.name) IN
        IF Head(F) \notin UpperCase THEN err = "none" /\ ret = "True"
        ELSE IF F \notin DOMAIN data THEN err = "KeyError"
        ELSE err = "none" /\ ret = Bool(InRange(data[F], df_info.version))

\* version_has_option was asked about a field at the version that removed it
C8_Witness ==
    /\ last.op = "version_has_option"
    /\ last.name \in DOMAIN data
    /\ Len(data[last.name]) = 2
    /\ df_info.version = data[last.name][2]
    /\ ret = "False"

\* C8 (as stated): version_has_option(x) is true for every x with a lower-case
\* first letter, a lookup error for an upper-case x the table lacks, and
\* otherwise whether the version is in the range of x's entry.
C8_ByFieldName ==
    (last.op = "version_has_option" /\ last.name # "") =>
        IF Head(last.name) \in LowerCase THEN err = "none" /\ ret = "True"
        ELSE IF last.name \notin DOMAIN data THEN err = "KeyError"
        ELSE err = "none" /\ ret = Bool(InRange(data[last.name], df_info.version))

\* the options read_settings registered
Discovered == DOMAIN settings \ DOMAIN last.pre.settings

\* the text of a file before the last call
TextOf(f) == io_read(last.pre.disk[f])

\* C17: read_settings adds no key to in_files and leaves the list of every
\* fileset of several files as it was; every option it registers is bound to
\* a fileset of one file that in_files had before, is on that fileset's list
\* and is named by a token of that file.  When it returns, a toggle bound to
\* a fileset of several files is YES if any file of the fileset holds [FIELD]
\* and is otherwise as before, and an option bound to a fileset of one file
\* holds the value of the first token of its field in that file.  (Options
\* are the names with a policy.)
C17_ReadSettings ==
    last.op = "read_settings" =>
        /\ in_files_keys(in_files) = in_files_keys(last.pre.in_files)
        /\ \A i \in 1..Len(in_files) :
                Len(in_files[i].files) > 1 =>
                    in_files[i].names = last.pre.in_files[i].names
        /\ \A n \in Discovered :
                /\ Len(files[n]) = 1
                /\ files[n][1] \in DiscoveryFiles(last.pre)
                /\ n \in Elems(in_files_get(in_files, files[n]))
                /\ \E k \in 1..Len(re_findall(TextOf(files[n][1]), 1)) :
                        re_findall(TextOf(files[n][1]), 1)[k][1] = n
        /\ err = "none" =>
                \A n \in DOMAIN options :
                    IF options[n] = _disabled
                    THEN Len(files[n]) > 1 =>
                            settings[n] =
                                IF \E k \in 1..Len(files[n]) :
                                        str_find(TextOf(files[n][k]),
                                                 "[" \o field_names[n] \o "]", 1) # 0
                                THEN "YES" ELSE last.pre.settings[n]
                    ELSE (/\ Len(files[n]) = 1
                          /\ n \notin DOMAIN inverse_field_names
                          /\ re_search(field_names[n], TextOf(files[n][1]), 1).start # 0)
                            => settings[n] =
                                 decode_value(options[n],
                                     re_search(field_names[n], TextOf(files[n][1]), 1).group).value

\* read_settings registered an option found in a fileset of one file while a
\* file of a fileset of several files held a token of an unregistered name
C17_Witness ==
    /\ last.op = "read_settings"
    /\ Discovered # {}
    /\ \E i \in 1..Len(in_files) :
            /\ Len(in_files[i].files) > 1
            /\ \E j \in 1..Len(in_files[i].files) :
                    LET found == re_findall(TextOf(in_files[i].files[j]), 1) IN
                    \E k \in 1..Len(found) : found[k][1] \notin DOMAIN field_names

\* how many times the name is on the list in_files keeps for a fileset
Occurrences(w, n, i) ==
    Cardinality({k \in 1..Len(w.in_files[i].names) : w.in_files[i].names[k] = n})

\* settings, options and files have the same keys, and every name in them is
\* once on the list of its fileset and on no other list
Consistent(w) ==
    /\ DOMAIN w.settings = DOMAIN w.options
    /\ DOMAIN w.options = DOMAIN w.files
    /\ \A n \in DOMAIN w.settings :
            /\ n \in DOMAIN w.files
            /\ \E i \in 1..Len(w.in_files) : w.in_files[i].files = w.files[n]
            /\ \A i \in 1..Len(w.in_files) :
                    Occurrences(w, n, i) =
                        IF w.in_files[i].files = w.files[n] THEN 1 ELSE 0

\* the last call was cycle_item, or write_file with one field, on a name that
\* had a value
OnNameWithValue ==
    \/ last.op = "cycle_item" /\ last.name \in DOMAIN last.pre.settings
    \/ /\ last.op = "write_file"
       /\ Len(last.fields) = 1
       /\ last.fields[1] \in DOMAIN last.pre.settings

\* set_value was called on a name that had no value
SetUnregistered ==
    last.op = "set_value" /\ last.name \notin DOMAIN last.pre.settings

\* C19 (as the code has it): the registry is consistent after construction,
\* and every call but set_value on a name that has no value keeps it
\* consistent; set_value on a name that has no value gives it a value and
\* no policy and no file binding.  On a consistent registry cycle_item and
\* write_file on a name that has a value raise no KeyError.
C19_ConsistentUnlessSet ==
    /\ last.op = "none" => Consistent(World)
    /\ (last.op # "none" /\ Consistent(last.pre) /\ ~SetUnregistered)
            => Consistent(World)
    /\ SetUnregistered =>
            /\ settings[last.name] = last.value
            /\ last.name \notin DOMAIN options
            /\ last.name \notin DOMAIN files
    /\ (last.op # "none" /\ Consistent(last.pre) /\ OnNameWithValue)
            => err # "KeyError"

\* an option was registered, by create_option or by a read that discovered
\* it, in a consistent registry that stayed consistent
C19_Witness ==
    /\ last.op \in {"create_option", "read_file", "read_settings"}
    /\ Consistent(last.pre)
    /\ Consistent(World)
    /\ DOMAIN settings # DOMAIN last.pre.settings

\* C19 as stated: after every sequence of calls the registry is consistent,
\* and cycle_item and write_file on a name that has a value raise no KeyError.
C19_Consistent ==
    /\ Consistent(World)
    /\ OnNameWithValue => err # "KeyError"

-----------------------------------------------------------------------------
(* Properties of calls on a file that does not exist, checked under Spec *)

\* read_file or write_file was called on a file that does not exist
MissingFileCall ==
    /\ last.op \in {"read_file", "write_file"}
    /\ last.pre.disk[last.filename] = NoFile

\* C16: read_file and write_file on a file that does not exist raise IOError,
\* and then the registry is as it was before the call, no file has changed and
\* the file still does not exist.
C16_MissingFile ==
    MissingFileCall =>
        /\ err = "IOError"
        /\ Registry(World) = Registry(last.pre)
        /\ disk = last.pre.disk
        /\ disk[last.filename] = NoFile

\* read_file was asked to read the options of a file that does not exist, and
\* raised
C16_Witness ==
    /\ MissingFileCall
    /\ last.op = "read_file"
    /\ last.fields # <<>>
    /\ err = "IOError"

-----------------------------------------------------------------------------
(* Properties of the static methods and single-file operations, checked under
   SpecProbe *)

\* the sequence a policy is cycled through
PolicySeq(items) ==
    IF items \in {_disabled, _force_bool, _negated_bool}
    THEN <<"YES", "NO">> ELSE items.values

\* the value after current under a policy: current itself without a policy;
\* the first of the sequence when current is not in it or is found last in it;
\* otherwise the one after the first place current is found at
NextValue(current, items) ==
    IF items = None THEN current
    ELSE LET seq == PolicySeq(items)
             at == {i \in 1..Len(seq) : seq[i] = current}
             first == CHOOSE i \in at : \A j \in at : i <= j
         IN  IF at = {} THEN seq[1]
             ELSE IF first = Len(seq) THEN seq[1]
             ELSE seq[first + 1]

\* C13: cycle_list(current, policy) is the value after current under the
\* policy, and cycle_item stores that value for the option and changes no
\* other value.
C13_CycleList ==
    /\ last.op = "cycle_list" => ret = NextValue(last.value, last.items)
    /\ (last.op = "cycle_item" /\ err = "none") =>
            /\ DOMAIN settings = DOMAIN last.pre.settings
            /\ \A n \in DOMAIN settings :
                   settings[n] = IF n = last.name
                                 THEN NextValue(last.pre.settings[n],
                                                last.pre.options[n])
                                 ELSE last.pre.settings[n]

\* cycle_item wrapped an option from the last value of its list to the first
C13_Witness ==
    /\ last.op = "cycle_item"
    /\ err = "none"
    /\ last.pre.options[last.name].kind = "values"
    /\ Len(PolicySeq(last.pre.options[last.name])) = 3
    /\ last.pre.settings[last.name] = PolicySeq(last.pre.options[last.name])[3]
    /\ settings[last.name] = PolicySeq(last.pre.options[last.name])[1]

\* the values of the tokens of the field a probe was asked about, left to
\* right; none when the file does not exist
ProbedValues ==
    IF last.pre.disk[last.filename] = NoFile THEN <<>>
    ELSE re_groups(last.name, TextBefore, 1)

\* C15: read_value returns None when the file does not exist or holds no
\* token of the field, and otherwise the value of the first token; has_field
\* returns False when the file does not exist; neither raises, and neither
\* changes the registry or a file.
C15_Probes ==
    /\ last.op \in {"read_value", "has_field"} =>
            /\ err = "none"
            /\ Registry(World) = Registry(last.pre)
            /\ disk = last.pre.disk
    /\ last.op = "read_value" =>
            ret = IF ProbedValues = <<>> THEN "None"
                  ELSE "'" \o ProbedValues[1] \o "'"
    /\ (last.op = "has_field" /\ last.pre.disk[last.filename] = NoFile) =>
            ret = "False"

\* read_value returned the first of two different values of a field
C15_Witness ==
    /\ last.op = "read_value"
    /\ Len(ProbedValues) >= 2
    /\ ProbedValues[1] # ProbedValues[2]
    /\ ret = "'" \o ProbedValues[1] \o "'"

\* the number of parameters of the first token of the field has_field was
\* asked about
ParamCount == 1 + str_count(ProbedValues[1], ":", 1)

\* a count is within the limits <<num_params, min_params, max_params>>
WithinLimits(k, limits) ==
    /\ limits[1] # -1 => k = limits[1]
    /\ limits[2] # -1 => k >= limits[2]
    /\ limits[3] # -1 => k <= limits[3]

\* C18: has_field returns True exactly when the file holds a token
\* [field:p1:...:pk] and the k of the first one is within every limit that is
\* not -1; it returns False for a field that is in the file only as a bare
\* [field] and for a field that is not in the file.
C18_HasField ==
    last.op = "has_field" =>
        ret = Bool(/\ ProbedValues # <<>>
                   /\ WithinLimits(ParamCount, last.limits))

\* has_field found a token of three parameters within three limits
C18_Witness ==
    /\ last.op = "has_field"
    /\ \A i \in 1..3 : last.limits[i] # -1
    /\ ProbedValues # <<>>
    /\ ParamCount = 3
    /\ ret = "True"

\* the first token [FIELD:...] of option F's on-disk field name in the file
\* create_file wrote
TokenWritten(F) == re_search(field_names[F], TextAfter, 1)

\* the registry after read_file(filename, fields, False) on the file
\* create_file wrote
ReadBack == read_file(World, last.filename, last.fields, FALSE)

\* C20: the file create_file wrote holds one line per field, and in it
\* every field that is not a toggle has a token [FIELD:...] of its on-disk
\* field name, which read_file(filename, fields, False) reads back as the
\* value the option has.
C20_CreateFileRoundTrip ==
    (last.op = "create_file" /\ err = "none") =>
        /\ str_count(TextAfter, "\n", 1) = Len(last.fields)
        /\ \A F \in Elems(last.fields) :
                options[F] # _disabled =>
                    /\ TokenWritten(F).start # 0
                    /\ ReadBack.err = "none"
                    /\ ReadBack.settings[F] = settings[F]

====
